---- MODULE Spec2Model ----
(***************************************************************************)
(* A model of app.py, the commodities VaR / options dashboard.             *)
(*                                                                         *)
(* Numbers.  Prices are powers of two, so that the natural logarithm of a  *)
(* price ratio is an exact integer multiple of ln 2; every log-scale       *)
(* quantity is an exact rational in units of ln 2, kept as a record        *)
(* [nan, n, d] in lowest terms (nan = TRUE is the floating-point NaN).     *)
(* A pandas Series / one-column DataFrame is a sequence of rows            *)
(* [t |-> index label, v |-> value].                                       *)
(***************************************************************************)
EXTENDS Integers, Sequences, FiniteSets, TLC

\* ------------------------------------------------------------------ bounds
MaxData == 7          \* rows of the selected commodity in data.feather
MaxPeriod == 7        \* largest look-back period entered
MaxWindow == 2        \* largest rolling window entered
MaxLen == 4           \* longest price series handed to get_var_cvar directly
MaxPeriods == 2       \* largest _periods of a MonteCarloVar call
MaxSims == 3          \* largest _simulations of a MonteCarloVar call
RngMod == 7           \* number of states of the random generator

\* prices present in the data file (main) and in direct calls
FilePrices == {1, 2}
CallPrices == {1, 2, 4}

VARIABLES
    entry,            \* which entry point of the module is being driven
    pc,               \* position in the running script / call
    error,            \* the exception that ended the run, or "none"
    data,             \* rows of the selected commodity in the loaded file
    period,           \* look-back period widget
    dataframe,        \* the price Series handed to get_log_returns
    log_returns,      \* result of get_log_returns
    rolling_window,   \* rolling window widget / argument
    sum_log_returns,  \* rolling(w).sum().dropna()
    p_value,          \* confidence level of the quantile
    log_value_at_risk,
    log_expected_shortfall,
    garch_data,       \* 1000 * sum_log_returns
    training_data,
    testing_data,
    conditional_training_data,
    model_fit,        \* the current fitted GARCH result, NoFit before the first fit
    n_fits,           \* number of model.fit calls made so far
    i,                \* loop variable of the walk-forward loop
    forcasted_values, \* frame of forecasts, indexed like testing_data
    forecasted_var,   \* the forecasted VaR path written to the page
    rng_state,        \* state of the process-wide generator behind np.random
    mc_last,          \* <<arguments and results>> of the latest MonteCarloVar call, or None
    bs_call           \* <<arguments and result>> of the latest option pricer call, or None

histVars == <<log_returns, rolling_window, sum_log_returns, p_value,
              log_value_at_risk, log_expected_shortfall>>
garchVars == <<garch_data, training_data, testing_data, conditional_training_data,
               model_fit, n_fits, i, forcasted_values, forecasted_var>>
fnVars == <<rng_state, mc_last, bs_call>>
vars == <<entry, pc, error, data, period, dataframe, histVars, garchVars, fnVars>>

\* ------------------------------------------------------------ real numbers
Abs(x) == IF x < 0 THEN -x ELSE x

RECURSIVE GCD(_, _)
GCD(a, b) == IF b = 0 THEN a ELSE GCD(b, a % b)

NaN == [nan |-> TRUE, n |-> 0, d |-> 1]

Rat(n, d) ==
    LET s == IF d < 0 THEN -1 ELSE 1
        g == GCD(Abs(n), Abs(d))
    IN  [nan |-> FALSE, n |-> (s * n) \div g, d |-> (s * d) \div g]

\* IEEE comparisons: anything compared with NaN is false
Leq(x, y) == ~x.nan /\ ~y.nan /\ x.n * y.d <= y.n * x.d
Geq(x, y) == Leq(y, x)

RAdd(x, y) == IF x.nan \/ y.nan THEN NaN ELSE Rat(x.n * y.d + y.n * x.d, x.d * y.d)
RSub(x, y) == IF x.nan \/ y.nan THEN NaN ELSE Rat(x.n * y.d - y.n * x.d, x.d * y.d)
RMul(x, y) == IF x.nan \/ y.nan THEN NaN ELSE Rat(x.n * y.n, x.d * y.d)

\* numerator and denominator of a price ratio a / b
Ratio(a, b) == LET g == GCD(a, b) IN <<a \div g, b \div g>>

\* log of a power of two, in units of ln 2
RECURSIVE Log2(_)
Log2(x) == IF x <= 1 THEN 0 ELSE 1 + Log2(x \div 2)

\* np.log(a / b) for positive a, b (units of ln 2)
LogRatio(a, b) == LET r == Ratio(a, b) IN Rat(Log2(r[1]) - Log2(r[2]), 1)

\* --------------------------------------------------------- series helpers
Values(s) == [k \in 1..Len(s) |-> s[k].v]
Index(s) == [k \in 1..Len(s) |-> s[k].t]

RECURSIVE SumSeq(_)
SumSeq(s) == IF Len(s) = 0 THEN Rat(0, 1) ELSE RAdd(s[1], SumSeq(Tail(s)))

RECURSIVE DropNa(_)
DropNa(s) ==
    IF Len(s) = 0 THEN <<>>
    ELSE IF s[1].v.nan THEN DropNa(Tail(s)) ELSE <<s[1]>> \o DropNa(Tail(s))

RECURSIVE Insert(_, _)
Insert(x, s) ==
    IF Len(s) = 0 THEN <<x>>
    ELSE IF Leq(x, s[1]) THEN <<x>> \o s ELSE <<s[1]>> \o Insert(x, Tail(s))

RECURSIVE Sorted(_)
Sorted(s) == IF Len(s) = 0 THEN <<>> ELSE Insert(s[1], Sorted(Tail(s)))

\* ------------------------------------------------------- get_log_returns
\* dataframe.shift(1): the previous price, NaN (0 here) in the first row
Shift1(prices) == [k \in 1..Len(prices) |-> IF k = 1 THEN 0 ELSE prices[k - 1]]

\* log_returns[1:] of np.log(dataframe_ / previous_returns)
LogValues(prices) ==
    LET prev == Shift1(prices)
        all == [k \in 1..Len(prices) |->
                  IF prev[k] = 0 THEN NaN ELSE LogRatio(prices[k], prev[k])]
    IN  IF Len(all) = 0 THEN <<>> ELSE Tail(all)

\* the labels of the later price of each pair, dataframe.index[1:]
IndexButFirst(df) == IF Len(df) = 0 THEN <<>> ELSE SubSeq(Index(df), 2, Len(df))

\* dataframe.index[:-1]
IndexButLast(df) == IF Len(df) = 0 THEN <<>> ELSE SubSeq(Index(df), 1, Len(df) - 1)

get_log_returns(df) ==
    LET vals == LogValues(Values(df))
        idx == IndexButLast(df)
    IN  [k \in 1..Len(vals) |-> [t |-> idx[k], v |-> vals[k]]]

\* ----------------------------------------------------- rolling sum, tails
\* log_returns.rolling(w).sum(): NaN until w observations are in the window
RollingSum(lr, w) ==
    [k \in 1..Len(lr) |->
        [t |-> lr[k].t,
         v |-> IF k < w THEN NaN ELSE SumSeq(Values(SubSeq(lr, k - w + 1, k)))]]

RollingSumDropNa(lr, w) == DropNa(RollingSum(lr, w))

\* an interpolation that steps away from the upper neighbour instead of towards it
Quantile_Extrapolates(a, q) ==
    LET s == Sorted(a)
        n == Len(s)
        pos == (n - 1) * q.n
        lo == pos \div q.d
        hi == IF lo + 1 < n THEN lo + 1 ELSE n - 1
        gamma == Rat(pos % q.d, q.d)
    IN  RSub(s[lo + 1], RMul(RSub(s[hi + 1], s[lo + 1]), gamma))

\* np.quantile(a, q), linear interpolation between order statistics, a non-empty
Quantile(a, q) ==
    LET s == Sorted(a)
        n == Len(s)
        pos == (n - 1) * q.n
        lo == pos \div q.d
        hi == IF lo + 1 < n THEN lo + 1 ELSE n - 1
        gamma == Rat(pos % q.d, q.d)
    IN  RAdd(s[lo + 1], RMul(RSub(s[hi + 1], s[lo + 1]), gamma))

\* the rows on the other side of the quantile, frame[frame[col] >= var]
RECURSIVE TailRows_Upper(_, _)
TailRows_Upper(rows, var) ==
    IF Len(rows) = 0 THEN <<>>
    ELSE IF Geq(rows[1].v, var) THEN <<rows[1]>> \o TailRows_Upper(Tail(rows), var)
         ELSE TailRows_Upper(Tail(rows), var)

\* frame[frame[col] <= var]
RECURSIVE TailRows(_, _)
TailRows(rows, var) ==
    IF Len(rows) = 0 THEN <<>>
    ELSE IF Leq(rows[1].v, var) THEN <<rows[1]>> \o TailRows(Tail(rows), var)
         ELSE TailRows(Tail(rows), var)

\* .mean().values[0]: NaN on an empty frame
Mean(rows) ==
    IF Len(rows) = 0 THEN NaN
    ELSE RMul(SumSeq(Values(rows)), Rat(1, Len(rows)))

TailMean(rows, var) == Mean(TailRows(rows, var))

P05 == Rat(5, 100)
PValues == {Rat(5, 100), Rat(1, 4), Rat(1, 2), Rat(3, 4)}

\* outcomes of np.quantile on an empty array: IndexError on current numpy,
\* NaN (with a warning) on older releases
EmptyQuantileOutcomes == {"IndexError", "nan"}

\* no call made yet / no fit made yet
None == <<>>
NoFit == [sample |-> <<>>, flag |-> -1]

SeqsUpTo(S, n) == UNION {[1..k -> S] : k \in 0..n}

\* a price Series with index labels first..first+n-1
Series(first, prices) == [k \in 1..Len(prices) |-> [t |-> first + k - 1, v |-> prices[k]]]

\* ---------------------------------------------------------------- Init
Init ==
    /\ entry \in {"main", "get_var_cvar", "MonteCarloVar", "black_scholes"}
    /\ pc = "start"
    /\ error = "none"
    /\ data \in IF entry = "main"
                THEN {Series(1, s) : s \in SeqsUpTo(FilePrices, MaxData)}
                ELSE {<<>>}
    /\ period = 0
    /\ dataframe = <<>>
    /\ log_returns = <<>>
    /\ rolling_window = 0
    /\ sum_log_returns = <<>>
    /\ p_value = NaN
    /\ log_value_at_risk = NaN
    /\ log_expected_shortfall = NaN
    /\ garch_data = <<>>
    /\ training_data = <<>>
    /\ testing_data = <<>>
    /\ conditional_training_data = <<>>
    /\ model_fit = NoFit
    /\ n_fits = 0
    /\ i = 0
    /\ forcasted_values = <<>>
    /\ forecasted_var = <<>>
    /\ rng_state \in IF entry = "MonteCarloVar" THEN 0..(RngMod - 1) ELSE {0}
    /\ mc_last = None
    /\ bs_call = None

\* ------------------------------------------------------ get_var_cvar call
Call_get_var_cvar ==
    /\ entry = "get_var_cvar"
    /\ pc = "start"
    /\ \E prices \in SeqsUpTo(CallPrices, MaxLen), w \in 1..MaxWindow, p \in PValues,
          out \in EmptyQuantileOutcomes :
        LET df == Series(1, prices)
            lr == get_log_returns(df)
            slr == RollingSumDropNa(lr, w)
            var == IF Len(slr) = 0 THEN NaN ELSE Quantile(Values(slr), p)
        IN  /\ dataframe' = df
            /\ rolling_window' = w
            /\ p_value' = p
            /\ log_returns' = lr
            /\ sum_log_returns' = slr
            /\ IF Len(slr) = 0 /\ out = "IndexError"
               THEN /\ error' = "IndexError"
                    /\ pc' = "raised"
                    /\ UNCHANGED <<log_value_at_risk, log_expected_shortfall>>
               ELSE /\ log_value_at_risk' = var
                    /\ log_expected_shortfall' = TailMean(slr, var)
                    /\ pc' = "returned"
                    /\ error' = "none"
    /\ UNCHANGED <<entry, data, period, garchVars, fnVars>>

\* ------------------------------------------------------------------ main
\* frame.iloc[-period:, :]
LastRows(rows, n) == IF n >= Len(rows) THEN rows ELSE SubSeq(rows, Len(rows) - n + 1, Len(rows))

RECURSIVE InsertRow(_, _)
InsertRow(r, s) ==
    IF Len(s) = 0 THEN <<r>>
    ELSE IF r.t < s[1].t THEN <<r>> \o s ELSE <<s[1]>> \o InsertRow(r, Tail(s))

\* frame.sort_index(ascending=True)
RECURSIVE SortIndex(_)
SortIndex(rows) ==
    IF Len(rows) = 0 THEN <<>>
    ELSE InsertRow(rows[Len(rows)], SortIndex(SubSeq(rows, 1, Len(rows) - 1)))

Fail(exc) == /\ pc' = "failed" /\ error' = exc

\* lines 149-158: look-back period, filter by time, sort
LoadData ==
    /\ entry = "main" /\ pc = "start"
    /\ UNCHANGED fnVars
    /\ \E n \in 1..MaxPeriod :
        /\ period' = n
        /\ dataframe' = SortIndex(LastRows(data, n))
    /\ pc' = "returns"
    /\ UNCHANGED <<entry, error, data, histVars, garchVars>>

\* line 161
LogReturnsStep ==
    /\ entry = "main" /\ pc = "returns"
    /\ UNCHANGED fnVars
    /\ log_returns' = get_log_returns(dataframe)
    /\ pc' = "rolling"
    /\ UNCHANGED <<entry, error, data, period, dataframe, rolling_window, sum_log_returns,
                   p_value, log_value_at_risk, log_expected_shortfall, garchVars>>

\* lines 164-167
RollingStep ==
    /\ entry = "main" /\ pc = "rolling"
    /\ UNCHANGED fnVars
    /\ \E w \in 1..MaxWindow :
        /\ rolling_window' = w
        /\ sum_log_returns' = RollingSumDropNa(log_returns, w)
    /\ pc' = "hist"
    /\ UNCHANGED <<entry, error, data, period, dataframe, log_returns,
                   p_value, log_value_at_risk, log_expected_shortfall, garchVars>>

\* lines 188-193: the historical VaR and expected shortfall at the 5% level
HistoricalVar ==
    /\ entry = "main" /\ pc = "hist"
    /\ UNCHANGED fnVars
    /\ p_value' = P05
    /\ IF Len(sum_log_returns) = 0
       THEN \E out \in EmptyQuantileOutcomes :
              IF out = "IndexError"
              THEN /\ Fail("IndexError")
                   /\ UNCHANGED <<log_value_at_risk, log_expected_shortfall>>
              ELSE /\ log_value_at_risk' = NaN
                   /\ log_expected_shortfall' = TailMean(sum_log_returns, NaN)
                   /\ pc' = "options"
                   /\ error' = error
       ELSE LET var == Quantile(Values(sum_log_returns), P05)
            IN  /\ log_value_at_risk' = var
                /\ log_expected_shortfall' = TailMean(sum_log_returns, var)
                /\ pc' = "options"
                /\ error' = error
    /\ UNCHANGED <<entry, data, period, dataframe, log_returns, rolling_window,
                   sum_log_returns, garchVars>>

\* lines 295-298: commodity_data['Close'].iloc[-1] needs one row at least.  The
\* Monte Carlo and option sections before line 306 only call MonteCarloVar,
\* call_black_scholes and put_black_scholes and write their results to the page.
OptionsSection ==
    /\ entry = "main" /\ pc = "options"
    /\ UNCHANGED fnVars
    /\ IF Len(dataframe) = 0
       THEN Fail("IndexError")
       ELSE /\ pc' = "split" /\ error' = error
    /\ UNCHANGED <<entry, data, period, dataframe, histVars, garchVars>>

Scale == 1000

\* 1000 * (sum_log_returns)
Scaled(rows) == [k \in 1..Len(rows) |-> [t |-> rows[k].t, v |-> RMul(Rat(Scale, 1), rows[k].v)]]

\* int(len(garch_data) * 0.8)
SplitPoint(n) == (n * 8) \div 10

TrainPart(rows) == SubSeq(rows, 1, SplitPoint(Len(rows)))

\* a split whose test part starts one row late
TestPart_SkipsRow(rows) == SubSeq(rows, SplitPoint(Len(rows)) + 2, Len(rows))

TestPart(rows) == SubSeq(rows, SplitPoint(Len(rows)) + 1, Len(rows))

\* lines 327-333
GarchSplit ==
    /\ entry = "main" /\ pc = "split"
    /\ UNCHANGED fnVars
    /\ garch_data' = Scaled(sum_log_returns)
    /\ training_data' = TrainPart(Scaled(sum_log_returns))
    /\ testing_data' = TestPart(Scaled(sum_log_returns))
    /\ conditional_training_data' = TrainPart(Scaled(sum_log_returns))
    /\ pc' = "pacf"
    /\ UNCHANGED <<entry, error, data, period, dataframe, histVars,
                   model_fit, n_fits, i, forcasted_values, forecasted_var>>

NLags == 20

\* lines 358-361: pacf / acf with nlags = 20.  statsmodels refuses lags beyond
\* half of the sample on current releases and computes them on older ones.
PacfOutcomes(n) == IF NLags > n \div 2 THEN {"ValueError", "ok"} ELSE {"ok"}

PacfStep ==
    /\ entry = "main" /\ pc = "pacf"
    /\ UNCHANGED fnVars
    /\ \E out \in PacfOutcomes(Len(training_data)) :
        IF out = "ok" THEN pc' = "fit" /\ error' = error ELSE Fail(out)
    /\ UNCHANGED <<entry, data, period, dataframe, histVars, garchVars>>

\* arch_model(...).fit(disp='off'): the optimizer converges (flag 0), stops
\* without converging (a ConvergenceWarning, flag non-zero, a result is still
\* returned), or the library raises; it always raises on an empty sample.
FitOutcomes(sample) ==
    IF Len(sample) = 0 THEN {"raise"} ELSE {"converged", "not_converged", "raise"}

\* the result object of a fit of `sample`
FitResult(sample, out) == [sample |-> sample, flag |-> IF out = "converged" THEN 0 ELSE 1]

\* lines 386-393
FitTrain ==
    /\ entry = "main" /\ pc = "fit"
    /\ UNCHANGED fnVars
    /\ \E out \in FitOutcomes(training_data) :
        IF out = "raise"
        THEN /\ Fail("FitError") /\ UNCHANGED <<model_fit, n_fits>>
        ELSE /\ model_fit' = FitResult(training_data, out)
             /\ n_fits' = n_fits + 1
             /\ pc' = "normtest_train"
             /\ error' = error
    /\ UNCHANGED <<entry, data, period, dataframe, histVars, garch_data, training_data,
                   testing_data, conditional_training_data, i, forcasted_values,
                   forecasted_var>>

MinNormalTest == 8

\* scipy's normaltest needs 8 observations: a ValueError below that on older
\* releases, NaN with a warning on current ones
NormalTestOutcomes(n) == IF n < MinNormalTest THEN {"ValueError", "ok"} ELSE {"ok"}

Unset == [set |-> FALSE, sample |-> <<>>, flag |-> 0]

\* pd.DataFrame(index=testing_data.index, columns=['Forecasted Volatility'])
EmptyForecasts(test) == [k \in 1..Len(test) |-> [t |-> test[k].t, v |-> Unset]]

\* lines 395-432: training residuals, normality test, the empty forecast frame
NormalTestTrain ==
    /\ entry = "main" /\ pc = "normtest_train"
    /\ UNCHANGED fnVars
    /\ \E out \in NormalTestOutcomes(Len(training_data)) :
        IF out = "ok"
        THEN /\ forcasted_values' = EmptyForecasts(testing_data)
             /\ i' = 0
             /\ pc' = IF Len(testing_data) > 0 THEN "forecast" ELSE "assert"
             /\ error' = error
        ELSE /\ Fail(out) /\ UNCHANGED <<forcasted_values, i>>
    /\ UNCHANGED <<entry, data, period, dataframe, histVars, garch_data, training_data,
                   testing_data, conditional_training_data, model_fit, n_fits,
                   forecasted_var>>

\* np.sqrt(model_fit.forecast(horizon=1).variance.iloc[0].values[0]): the
\* one-step forecast is a function of the fitted result it is asked of
ForecastOf(fit) == [set |-> TRUE, sample |-> fit.sample, flag |-> fit.flag]

\* a store that always writes the first position
StoreForecast_First(frame, k, x) == [frame EXCEPT ![1].v = x]

\* forcasted_values.iloc[k] = x   (k counted from 0)
StoreForecast(frame, k, x) == [frame EXCEPT ![k + 1].v = x]

\* lines 436-439
Forecast ==
    /\ entry = "main" /\ pc = "forecast"
    /\ UNCHANGED fnVars
    /\ forcasted_values' = StoreForecast(forcasted_values, i, ForecastOf(model_fit))
    /\ pc' = "refit"
    /\ UNCHANGED <<entry, error, data, period, dataframe, histVars, garch_data,
                   training_data, testing_data, conditional_training_data, model_fit,
                   n_fits, i, forecasted_var>>

\* an expansion that also takes the observation after the current one
ExpandWindow_LookAhead(cond, test, k) ==
    cond \o SubSeq(test, k + 1, IF k + 2 <= Len(test) THEN k + 2 ELSE Len(test))

\* pd.concat([conditional_training_data, testing_data.iloc[k:k+1, :]])
ExpandWindow(cond, test, k) == cond \o SubSeq(test, k + 1, k + 1)

\* lines 442-448, and the loop header's next value of i
Refit ==
    /\ entry = "main" /\ pc = "refit"
    /\ UNCHANGED fnVars
    /\ conditional_training_data' = ExpandWindow(conditional_training_data, testing_data, i)
    /\ \E out \in FitOutcomes(conditional_training_data') :
        IF out = "raise"
        THEN /\ Fail("FitError") /\ UNCHANGED <<model_fit, n_fits, i>>
        ELSE /\ model_fit' = FitResult(conditional_training_data', out)
             /\ n_fits' = n_fits + 1
             /\ i' = i + 1
             /\ pc' = IF i + 1 < Len(testing_data) THEN "forecast" ELSE "assert"
             /\ error' = error
    /\ UNCHANGED <<entry, data, period, dataframe, histVars, garch_data, training_data,
                   testing_data, forcasted_values, forecasted_var>>

\* conditional_training_data.equals(garch_data)
FrameEquals(a, b) == a = b

\* line 451
AssertContinuity ==
    /\ entry = "main" /\ pc = "assert"
    /\ UNCHANGED fnVars
    /\ IF FrameEquals(conditional_training_data, garch_data)
       THEN pc' = "normtest_test" /\ error' = error
       ELSE Fail("AssertionError")
    /\ UNCHANGED <<entry, data, period, dataframe, histVars, garchVars>>

\* lines 454-485: plots, test residuals and their normality test
NormalTestTest ==
    /\ entry = "main" /\ pc = "normtest_test"
    /\ UNCHANGED fnVars
    /\ \E out \in NormalTestOutcomes(Len(testing_data)) :
        IF out = "ok" THEN pc' = "var" /\ error' = error ELSE Fail(out)
    /\ UNCHANGED <<entry, data, period, dataframe, histVars, garchVars>>

\* np.exp(forecast / 1000 * norm().ppf(0.05)), a function of the forecast
VarOf(x) == [var_of |-> x]

\* lines 489-503: the VaR path and its most recent value, forecasted_var.iloc[-1]
ForecastVar ==
    /\ entry = "main" /\ pc = "var"
    /\ UNCHANGED fnVars
    /\ forecasted_var' = [k \in 1..Len(forcasted_values) |->
                            [t |-> forcasted_values[k].t, v |-> VarOf(forcasted_values[k].v)]]
    /\ IF Len(forcasted_values) = 0
       THEN Fail("IndexError")
       ELSE pc' = "done" /\ error' = error
    /\ UNCHANGED <<entry, data, period, dataframe, histVars, garch_data, training_data,
                   testing_data, conditional_training_data, model_fit, n_fits, i,
                   forcasted_values>>

Main ==
    \/ LoadData
    \/ LogReturnsStep
    \/ RollingStep
    \/ HistoricalVar
    \/ OptionsSection
    \/ GarchSplit
    \/ PacfStep
    \/ FitTrain
    \/ NormalTestTrain
    \/ Forecast
    \/ Refit
    \/ AssertContinuity
    \/ NormalTestTest
    \/ ForecastVar

\* ---------------------------------------------------------- MonteCarloVar
\* the next state of the generator, and the standard normal deviate it yields
RngNext(s) == (s + 3) % RngMod
StdNormal(s) == (s % 5) - 2

\* np.sqrt of a perfect square
RECURSIVE SqrtFrom(_, _)
SqrtFrom(x, r) == IF r * r >= x THEN r ELSE SqrtFrom(x, r + 1)
Sqrt(x) == SqrtFrom(x, 0)

\* generator state after k draws
RECURSIVE RngAfter(_, _)
RngAfter(s, k) == IF k = 0 THEN s ELSE RngAfter(RngNext(s), k - 1)

\* np.random.normal(loc, scale, size=(sims, periods)): row r, column c is the
\* ((r-1)*periods + c)-th draw from the process-wide generator
NormalSamples(s, loc, scale, sims, periods) ==
    [r \in 1..sims |->
        [c \in 1..periods |->
            Rat(loc + scale * StdNormal(RngAfter(s, (r - 1) * periods + c - 1)), 1)]]

\* np.sum(normal_samples, axis=1) as the frame sim_returns (index 0..sims-1)
SimReturns(samples) == [r \in 1..Len(samples) |-> [t |-> r - 1, v |-> SumSeq(samples[r])]]

MonteCarloVar(s, mu, vol, delta_T, periods, sims, p) ==
    LET sim_returns == SimReturns(NormalSamples(s, mu * delta_T, vol * Sqrt(delta_T),
                                                sims, periods))
        var_p == Quantile(Values(sim_returns), p)
    IN  [sim_returns |-> sim_returns, var |-> var_p, cvar |-> TailMean(sim_returns, var_p)]

Mus == {0, 1}
Vols == {0, 1}
DeltaTs == {1, 4}
MCPValues == {Rat(5, 100), Rat(1, 4)}

Call_MonteCarloVar ==
    /\ entry = "MonteCarloVar"
    /\ pc \in {"start", "returned"}
    /\ \E mu \in Mus, vol \in Vols, dT \in DeltaTs, periods \in 1..MaxPeriods,
          sims \in 1..MaxSims, p \in MCPValues :
        /\ mc_last' = <<[args |-> <<mu, vol, dT, periods, sims, p>>,
                        ret |-> MonteCarloVar(rng_state, mu, vol, dT, periods, sims, p)]>>
        /\ rng_state' = RngAfter(rng_state, sims * periods)
    /\ pc' = "returned"
    /\ UNCHANGED <<entry, error, data, period, dataframe, histVars, garchVars, bs_call>>

\* ------------------------------------------------------ Black-Scholes pricer
\* A float is followed by its class only: NaN, a zero, a finite non-zero value
\* or an infinity, with its sign.  An operation whose class the classes of its
\* operands do not fix yields every class it can produce.
FNaN == [k |-> "nan", s |-> 1]
FZero == [k |-> "zero", s |-> 1]
FPos == [k |-> "fin", s |-> 1]
FNegative == [k |-> "fin", s |-> -1]
FInf == [k |-> "inf", s |-> 1]

FNeg(a) == IF a.k = "nan" THEN FNaN ELSE [k |-> a.k, s |-> -a.s]

FMul(a, b) ==
    IF a.k = "nan" \/ b.k = "nan" THEN FNaN
    ELSE IF {a.k, b.k} = {"zero", "inf"} THEN FNaN
    ELSE [k |-> IF "zero" \in {a.k, b.k} THEN "zero"
                ELSE IF "inf" \in {a.k, b.k} THEN "inf" ELSE "fin",
          s |-> a.s * b.s]

\* 1 / a: numpy scalars divide by zero to an infinity, with a warning
FRecip(a) ==
    IF a.k = "nan" THEN FNaN
    ELSE [k |-> IF a.k = "zero" THEN "inf" ELSE IF a.k = "inf" THEN "zero" ELSE "fin",
          s |-> a.s]

FAdd(a, b) ==
    IF a.k = "nan" \/ b.k = "nan" THEN {FNaN}
    ELSE IF a.k = "inf" /\ b.k = "inf" THEN (IF a.s = b.s THEN {a} ELSE {FNaN})
    ELSE IF a.k = "inf" THEN {a}
    ELSE IF b.k = "inf" THEN {b}
    ELSE IF a.k = "zero" /\ b.k = "zero" THEN (IF a.s = b.s THEN {a} ELSE {FZero})
    ELSE IF a.k = "zero" THEN {b}
    ELSE IF b.k = "zero" THEN {a}
    ELSE IF a.s = b.s THEN {a}
    ELSE {FPos, FNegative, FZero}

FSqrt(a) ==
    IF a.k = "nan" THEN FNaN
    ELSE IF a.s = -1 /\ a.k # "zero" THEN FNaN
    ELSE a

FExp(a) ==
    IF a.k = "nan" THEN FNaN
    ELSE IF a.k = "inf" THEN (IF a.s = 1 THEN FInf ELSE FZero)
    ELSE FPos

\* norm().cdf
FCdf(a) ==
    IF a.k = "nan" THEN FNaN
    ELSE IF a.k = "inf" /\ a.s = -1 THEN FZero
    ELSE FPos

\* np.log(S_0 / K) for positive S_0, K
FLogRatio(S0, K) == IF S0 > K THEN FPos ELSE IF S0 = K THEN FZero ELSE FNegative

AddS(A, B) == UNION {FAdd(a, b) : a \in A, b \in B}
MulS(A, B) == {FMul(a, b) : a \in A, b \in B}
NegS(A) == {FNeg(a) : a \in A}

\* the classes call_black_scholes can return
call_black_scholes(S_0, K, log_vol, rate, delta_t) ==
    LET sqrt_dt == FSqrt(delta_t)
        scale == FRecip(FMul(log_vol, sqrt_dt))
        drift == AddS({rate}, {FMul(FPos, FMul(log_vol, log_vol))})
        inner == AddS({FLogRatio(S_0, K)}, MulS({delta_t}, drift))
        d_up == MulS({scale}, inner)
        d_down == AddS(d_up, {FNeg(FMul(log_vol, sqrt_dt))})
        discount_rate == FExp(FNeg(FMul(rate, delta_t)))
        d_up_cum == {FCdf(x) : x \in d_up}
        d_down_cum == {FCdf(x) : x \in d_down}
    IN  AddS(MulS({FPos}, d_up_cum),
             NegS(MulS({FMul(FPos, discount_rate)}, d_down_cum)))

\* call_value - S_0 + K*np.exp(-rate*delta_t)
put_black_scholes(S_0, K, log_vol, rate, delta_t) ==
    AddS(AddS(call_black_scholes(S_0, K, log_vol, rate, delta_t), {FNegative}),
         {FMul(FPos, FExp(FNeg(FMul(rate, delta_t))))})

Spots == {1, 2}
Strikes == {1, 2}
VolClasses == {FNegative, FZero, FPos, FNaN}
RateClasses == {FZero, FPos}
ExpiryClasses == {FNegative, FZero, FPos}

Call_black_scholes ==
    /\ entry = "black_scholes"
    /\ pc \in {"start", "returned"}
    /\ \E fn \in {"call", "put"}, S_0 \in Spots, K \in Strikes, log_vol \in VolClasses,
          rate \in RateClasses, delta_t \in ExpiryClasses :
        \E price \in IF fn = "call"
                     THEN call_black_scholes(S_0, K, log_vol, rate, delta_t)
                     ELSE put_black_scholes(S_0, K, log_vol, rate, delta_t) :
            bs_call' = <<[fn |-> fn, S_0 |-> S_0, K |-> K, log_vol |-> log_vol,
                          rate |-> rate, delta_t |-> delta_t, ret |-> price]>>
    /\ pc' = "returned"
    /\ UNCHANGED <<entry, error, data, period, dataframe, histVars, garchVars,
                   rng_state, mc_last>>

Next == Main \/ Call_get_var_cvar \/ Call_MonteCarloVar \/ Call_black_scholes

Spec == Init /\ [][Next]_vars

\* ================================================================ claims
\* positions of main after the walk-forward loop has ended
AfterLoop == {"assert", "normtest_test", "var", "done"}

\* C1: walk-forward continuity.  The series is split into its first
\* floor(0.8 n) rows and the rest, and once the loop has processed every test
\* observation the expanded training sample is the training rows followed by
\* the test rows, row for row, which is the scaled input series; the assertion
\* that closes the loop never fails.
C1_WalkForwardContinuity ==
    /\ error # "AssertionError"
    /\ (entry = "main" /\ pc \in AfterLoop) =>
          /\ 10 * Len(training_data) <= 8 * Len(garch_data)
          /\ 8 * Len(garch_data) < 10 * (Len(training_data) + 1)
          /\ Len(training_data) + Len(testing_data) = Len(garch_data)
          /\ conditional_training_data = training_data \o testing_data
          /\ conditional_training_data = garch_data

C1_Witness ==
    /\ entry = "main" /\ pc = "done"
    /\ Len(testing_data) >= 2 /\ Len(training_data) >= 2
    /\ conditional_training_data = garch_data

\* C2: the forecast stored for test observation k (k = 1, 2, ...) comes from a
\* fit of exactly the training rows followed by the first k-1 test rows; when a
\* forecast is about to be made the current fit is of exactly the rows seen so
\* far, and the k-th forecast is preceded by exactly k fits.
C2_ForecastFromPastOnly ==
    entry = "main" =>
      /\ \A k \in 1..Len(forcasted_values) :
            forcasted_values[k].v.set =>
               forcasted_values[k].v.sample = training_data \o SubSeq(testing_data, 1, k - 1)
      /\ pc = "forecast" =>
            /\ model_fit # NoFit
            /\ model_fit.sample = training_data \o SubSeq(testing_data, 1, i)
            /\ n_fits = i + 1
      /\ pc = "refit" =>
            /\ forcasted_values[i + 1].v.set
            /\ n_fits = i + 1

C2_Witness ==
    /\ entry = "main" /\ pc = "forecast" /\ i = 1
    /\ forcasted_values[1].v.set
    /\ n_fits = 2
    /\ Len(model_fit.sample) = Len(training_data) + 1

\* number of test observations whose forecast has been stored
Filled ==
    IF pc = "forecast" THEN i
    ELSE IF pc = "refit" THEN i + 1
    ELSE Len(testing_data)

C3_Shape ==
    (entry = "main" /\ pc \in {"forecast", "refit"} \cup AfterLoop) =>
      /\ Len(forcasted_values) = Len(testing_data)
      /\ \A k \in 1..Len(forcasted_values) :
            /\ forcasted_values[k].t = testing_data[k].t
            /\ forcasted_values[k].v.set <=> k <= Filled

C3_Kept ==
    \A k \in 1..Len(forcasted_values) :
        forcasted_values[k].v.set =>
            /\ k <= Len(forcasted_values')
            /\ forcasted_values'[k] = forcasted_values[k]

\* C3: the forecast frame holds one position per test observation, in the order
\* of the test series; after iteration i exactly the first i+1 positions are
\* filled, on completion all len(test) are, and a filled position is never
\* changed by a later step.
C3_ForecastSeriesAppendOnly == [](C3_Shape) /\ [][C3_Kept]_vars

C3_Witness ==
    /\ entry = "main" /\ pc = "forecast" /\ i = 1
    /\ Len(forcasted_values) = 2
    /\ forcasted_values[1].v.set
    /\ ~forcasted_values[2].v.set
\* C4: a refit that does not converge ends the run: after such a refit the loop
\* takes no further step, and neither the forecast series nor a VaR derived
\* from it is reported.
C4_FailedRefitEndsRun ==
    (entry = "main" /\ n_fits >= 2 /\ model_fit.flag # 0) => pc = "failed"

\* an option pricer call has returned
Priced == Len(bs_call) = 1

NonPositive(x) == x.k = "zero" \/ (x.k \in {"fin", "inf"} /\ x.s = -1)

\* C5: the option pricer fails with InvalidParameterError whenever the time to
\* expiry or the volatility is not positive, and returns no price for them.
C5_InvalidParameterRejected ==
    Priced =>
      ((NonPositive(bs_call[1].delta_t) \/ NonPositive(bs_call[1].log_vol))
          => error = "InvalidParameterError")

\* get_log_returns has run on dataframe
ReturnsComputed ==
    \/ entry = "main" /\ pc \notin {"start", "returns"}
    \/ entry = "get_var_cvar" /\ pc # "start"

\* C6: get_log_returns fails with InsufficientDataError on a price series of
\* fewer than two points, and returns no (empty) series for it.
C6_ShortSeriesRejected ==
    (ReturnsComputed /\ Len(dataframe) < 2) => error = "InsufficientDataError"

\* the historical estimator has run on sum_log_returns
HistoricalRan ==
    \/ entry = "main" /\ pc \notin {"start", "returns", "rolling", "hist"}
    \/ entry = "get_var_cvar" /\ pc # "start"

\* the rolling sums have been computed
RollingComputed ==
    \/ entry = "main" /\ pc \notin {"start", "returns", "rolling"}
    \/ entry = "get_var_cvar" /\ pc # "start"

\* C7: the historical estimator fails with InsufficientDataError whenever the
\* window exceeds the number of log-returns (the rolling-sum series is empty);
\* for a window w <= len(returns) the series has len(returns) - w + 1 entries.
C7_EmptyRollingSumRejected ==
    /\ (HistoricalRan /\ rolling_window > Len(log_returns))
          => error = "InsufficientDataError"
    /\ (RollingComputed /\ rolling_window <= Len(log_returns))
          => Len(sum_log_returns) = Len(log_returns) - rolling_window + 1

RECURSIVE Pow2(_)
Pow2(e) == IF e <= 0 THEN 1 ELSE 2 * Pow2(e - 1)

\* x is the logarithm of b / a (in units of ln 2)
IsLogOfRatio(x, a, b) ==
    /\ ~x.nan /\ x.d = 1
    /\ IF x.n >= 0 THEN b = a * Pow2(x.n) ELSE a = b * Pow2(-x.n)

\* C8: for a series of n >= 2 positive prices get_log_returns returns n-1
\* values; value k is the log of price k+1 over price k and carries the
\* timestamp of price k, the earlier one; the last timestamp carries no return.
C8_LogReturnsAlignedToEarlier ==
    (ReturnsComputed /\ Len(dataframe) >= 2) =>
      /\ Len(log_returns) = Len(dataframe) - 1
      /\ \A k \in 1..Len(log_returns) :
            /\ log_returns[k].t = dataframe[k].t
            /\ log_returns[k].t # dataframe[Len(dataframe)].t
            /\ IsLogOfRatio(log_returns[k].v, dataframe[k].v, dataframe[k + 1].v)

C8_Witness ==
    /\ ReturnsComputed
    /\ Len(dataframe) >= 3
    /\ dataframe[1].t > 1
    /\ log_returns[1].v.n < 0
    /\ log_returns[2].v.n > 0

\* C9: two MonteCarloVar calls with the same arguments (the function takes no
\* seed and no generator) return the same draws, the same var and the same cvar.
C9_Reproducible ==
    [][(Len(mc_last) = 1 /\ Len(mc_last') = 1 /\ mc_last'[1].args = mc_last[1].args)
          => mc_last'[1].ret = mc_last[1].ret]_vars

\* the confidence level is below one half
Below50(p) == ~p.nan /\ 2 * p.n < p.d

\* C10: for a non-empty sample and p < 0.5 both estimators return cvar <= var.
C10_CvarBelowVar ==
    /\ (HistoricalRan /\ error = "none" /\ Len(sum_log_returns) > 0 /\ Below50(p_value))
          => Leq(log_expected_shortfall, log_value_at_risk)
    /\ (Len(mc_last) = 1 /\ Below50(mc_last[1].args[6]))
          => Leq(mc_last[1].ret.cvar, mc_last[1].ret.var)

\* the historical estimate is strictly inside the sample
HistStrict ==
    /\ HistoricalRan /\ Len(sum_log_returns) >= 2 /\ Below50(p_value)
    /\ log_expected_shortfall # log_value_at_risk
    /\ Leq(log_expected_shortfall, log_value_at_risk)

C10_Witness == entry = "get_var_cvar" /\ HistStrict /\ rolling_window = 2

\* var lies between the smallest and the largest value of the sample
WithinSample(rows, var) ==
    /\ \E k \in 1..Len(rows) : Leq(rows[k].v, var)
    /\ \E k \in 1..Len(rows) : Geq(rows[k].v, var)

\* C11: for a non-empty sample and 0 < p < 1 the interpolated quantile lies
\* between the sample minimum and maximum, so at least one sample value is
\* <= var and the cvar mean is taken over at least one observation (it is
\* never the NaN of an empty tail), in both estimators.
C11_QuantileWithinSample ==
    /\ (HistoricalRan /\ error = "none" /\ Len(sum_log_returns) > 0) =>
          /\ WithinSample(sum_log_returns, log_value_at_risk)
          /\ ~log_expected_shortfall.nan
    /\ Len(mc_last) = 1 =>
          /\ WithinSample(mc_last[1].ret.sim_returns, mc_last[1].ret.var)
          /\ ~mc_last[1].ret.cvar.nan

\* a Monte Carlo sample whose quantile is interpolated strictly inside it
C11_Witness ==
    /\ Len(mc_last) = 1
    /\ Len(mc_last[1].ret.sim_returns) >= 3
    /\ \E k \in 1..Len(mc_last[1].ret.sim_returns) :
          /\ mc_last[1].ret.sim_returns[k].v # mc_last[1].ret.var
          /\ Leq(mc_last[1].ret.sim_returns[k].v, mc_last[1].ret.var)
    /\ \A k \in 1..Len(mc_last[1].ret.sim_returns) :
          mc_last[1].ret.sim_returns[k].v # mc_last[1].ret.var
    /\ ~mc_last[1].ret.cvar.nan
====
